---- MODULE Spec2Model ----
(***************************************************************************)
(* combine_data.py: a notebook exported as a script.  The script is a      *)
(* straight line of pyplot / numpy calls grouped in cells In[19]..In[27].  *)
(* The model is an interpreter of that script: pc is the source line of    *)
(* the next statement, the namespace is the set of bound names plus the    *)
(* values the statements compute, and the pyplot state is the list of open *)
(* figures and the axes objects with their view limits, share groups,      *)
(* curves and bars.                                                        *)
(*                                                                         *)
(* Numbers: axis limits are kept in hundredths (set_ylim(-1.05, 1.05) is   *)
(* -105 .. 105); an array of population counts is its integer numerators   *)
(* over a denominator den (x / 1.0e6 multiplies den by 10^6); horizontal   *)
(* bar edges are kept doubled (x - width/2 is 2x - width over 2).  The     *)
(* 1000 samples of a linspace and of the functions applied to it are kept  *)
(* by length, creating cell and function only.                             *)
(*                                                                         *)
(* Styling calls (labels, colours, ticks, titles, print) read names and    *)
(* leave the modelled state alone.                                         *)
(***************************************************************************)
EXTENDS Integers, Sequences, FiniteSets, TLC

VARIABLES
    pc,        \* source line of the next statement
    notebook,  \* TRUE: cells run one by one in a notebook (inline backend
               \* flushes figures after each cell); FALSE: IPython runs the
               \* file as a whole, with no cell ends in between
    failed,    \* "" or the exception that stopped the run
    bound,     \* names bound in the global namespace (and builtins)
    done,      \* source lines executed so far
    arrs,      \* array name -> array value
    funcs,     \* the list of lists of function samples (line 168)
    labels,    \* the list of lists of labels (line 170)
    iy, ix,    \* loop indices of the grid cell
    it,        \* position of the running for loop's range iterator
    frame,     \* local namespace of the running one_sub call
    ret,       \* line one_sub returns to
    hnd,       \* axes handle name -> axes id (0: unbound)
    figh,      \* fig: id of the figure the name is bound to
    grid,      \* axes: the array of axes ids of the last subplots(2, 3)
    figs,      \* open figures, oldest first; the last one is current
    nfig,      \* figures created so far
    curax,     \* figure id -> its current axes (0: none yet)
    axs,       \* axes id -> axes object
    reads      \* arrays read so far: [cell, name, by] (by: creating cell)

data  == <<arrs, funcs, labels>>
loopv == <<iy, ix, it, frame, ret>>
gfx   == <<hnd, figh, grid, figs, nfig, curax, axs>>
vars  == <<pc, notebook, failed, bound, done, arrs, funcs, labels, iy, ix, it,
           frame, ret, hnd, figh, grid, figs, nfig, curax, axs, reads>>

(***************************************************************************)
(* The script's literals.                                                  *)
(***************************************************************************)
XSamples == 1000
TSamplesBug == XSamples \div 2
TSamples == 1000

Years == <<1801, 1851, 1901, 1951, 2001>>
InnerPop == <<879491, 1995846, 4670177, 3680821, 2765975>>
OuterPop == <<131666, 290763, 1556317, 4483595, 4406061>>
GreaterPopBug == <<1011157, 2286609, 6226494, 8164461, 7172036>>
GreaterPop == <<1011157, 2286609, 6226494, 8164416, 7172036>>
Million == 1000000

BarOffsetBug == 6 \div 2
BarOffset == 5
GroupedWidth == 7
StackedWidth == 10

StackBottomBug == "outer_pop"
StackBottom == "inner_pop"

GridShareX == "all"
GridShareYBug == GridShareX
GridShareY == "row"
GridRows == 2
GridCols == 3
TopRow == 0
BottomRowBug == TopRow
BottomRow == 1

TwinShareBug == "y"
TwinShare == "x"

GridXBug == "t"
GridX == "x"

In23PlotYBug == "cos"
In23PlotY == "sin"

FuncNames == <<<<"sinh", "cosh", "tanh">>, <<"sin", "cos", "tan">>>>
Labels == <<<<"sinh", "cosh", "tanh">>, <<"sin", "cos", "tan">>>>

(***************************************************************************)
(* Names and cells.                                                        *)
(***************************************************************************)
\* names the IPython session provides before the first statement
Builtins == {"print", "type", "range", "get_ipython"}
ArrNames == {"x", "t", "sinh", "sin", "cos", "cosh", "tan", "tanh", "years",
             "inner_pop", "outer_pop", "greater_pop", "iyears", "oyears"}
HandleNames == {"ax", "ax1", "ax2", "ax_bl"}

Markers == {26, 41, 57, 120, 132, 144, 226, 244, 267, 285}
EndOfFile == 288

CellOf(line) ==
    IF line < 41 THEN 19 ELSE IF line < 57 THEN 20 ELSE IF line < 120 THEN 21
    ELSE IF line < 132 THEN 22 ELSE IF line < 144 THEN 23
    ELSE IF line < 226 THEN 24 ELSE IF line < 244 THEN 25
    ELSE IF line < 267 THEN 26 ELSE IF line < 285 THEN 27 ELSE 28

FirstStatement(m) ==
    CASE m = 26 -> 29 [] m = 41 -> 45 [] m = 57 -> 60 [] m = 120 -> 123
      [] m = 132 -> 135 [] m = 144 -> 147 [] m = 226 -> 229 [] m = 244 -> 247
      [] m = 267 -> 271 [] m = 285 -> EndOfFile

(***************************************************************************)
(* Values.                                                                 *)
(***************************************************************************)
NoArr == [kind |-> "", cell |-> 0, len |-> 0, vals |-> <<>>, den |-> 1]
NoFrame == [ax |-> 0, x |-> NoArr, y |-> NoArr, label |-> ""]

View(auto, lo, hi) == [auto |-> auto, lo |-> lo, hi |-> hi]
DefaultView == View(TRUE, 0, 100)

NewAxes(f, xg, yg, xv) ==
    [fig |-> f, xg |-> xg, yg |-> yg, xv |-> xv, yv |-> DefaultView,
     curves |-> <<>>, bars |-> <<>>, legend |-> FALSE]

\* numpy: np.linspace(lo, hi, n), f(a), a / c, a + c
Linspace(c, n) ==
    [kind |-> "linspace", cell |-> c, len |-> n, vals |-> <<>>, den |-> 1]
Ufunc(c, f, a) ==
    [kind |-> f, cell |-> c, len |-> a.len, vals |-> <<>>, den |-> 1]
Literal(c, s) ==
    [kind |-> "literal", cell |-> c, len |-> Len(s), vals |-> s, den |-> 1]
DivScalar(c, a, k) ==
    [kind |-> "div", cell |-> c, len |-> a.len, vals |-> a.vals, den |-> a.den * k]
AddScalar(c, a, k) ==
    [kind |-> "add", cell |-> c, len |-> a.len,
     vals |-> [i \in 1..Len(a.vals) |-> a.vals[i] + k * a.den], den |-> a.den]

(***************************************************************************)
(* pyplot / Axes operations on the axes table.                             *)
(***************************************************************************)
\* id of the axes a panel (r, c) of a subplots grid shares an axis with
ShareRep(base, nc, r, c, share) ==
    CASE share = "all"  -> base + 1
      [] share = "row"  -> base + r * nc + 1
      [] share = "col"  -> base + c + 1
      [] share = "none" -> base + r * nc + c + 1

\* the axes plt.subplots(nr, nc, sharex, sharey) adds, row by row
SubplotAxes(f, base, nr, nc, sharex, sharey) ==
    [k \in 1..(nr * nc) |->
        LET r == (k - 1) \div nc
            c == (k - 1) % nc
        IN  NewAxes(f, ShareRep(base, nc, r, c, sharex),
                    ShareRep(base, nc, r, c, sharey), DefaultView)]

GridOf(base, nr, nc) ==
    [r \in 1..nr |-> [c \in 1..nc |-> base + (r - 1) * nc + c]]

\* Axes.set_xlim / set_ylim: the limits of every axes sharing that axis
SetXLim(tab, a, lo, hi) ==
    [b \in DOMAIN tab |->
        IF tab[b].xg = tab[a].xg THEN [tab[b] EXCEPT !.xv = View(FALSE, lo, hi)]
        ELSE tab[b]]
SetYLim(tab, a, lo, hi) ==
    [b \in DOMAIN tab |->
        IF tab[b].yg = tab[a].yg THEN [tab[b] EXCEPT !.yv = View(FALSE, lo, hi)]
        ELSE tab[b]]

\* Axes.twinx: a new axes on the same figure sharing one axis with a
TwinAxes(tab, a, share) ==
    LET b == Len(tab) + 1
    IN  IF share = "x"
        THEN [NewAxes(tab[a].fig, tab[a].xg, b, tab[a].xv) EXCEPT !.yv = DefaultView]
        ELSE [NewAxes(tab[a].fig, b, tab[a].yg, DefaultView) EXCEPT !.yv = tab[a].yv]

\* Axes.plot(x, y, label=label)
PlotOk(x, y) == x.len = y.len
AddCurve(tab, a, x, y, label) ==
    [tab EXCEPT ![a].curves = Append(@, [x |-> x, y |-> y, label |-> label])]

\* Axes.bar(x, height, width, bottom): rectangles centred on x
BarOk(x, h, bot) == x.len = h.len /\ (bot # NoArr => bot.len = h.len)
Rect(x, h, w, bot, i) ==
    [x2lo |-> 2 * x.vals[i] - w * x.den,
     x2hi |-> 2 * x.vals[i] + w * x.den,
     xden |-> 2 * x.den,
     y0 |-> IF bot = NoArr THEN 0
            ELSE IF bot.den = h.den THEN bot.vals[i] ELSE bot.vals[i] * h.den,
     y1 |-> IF bot = NoArr THEN h.vals[i]
            ELSE IF bot.den = h.den THEN bot.vals[i] + h.vals[i]
            ELSE bot.vals[i] * h.den + h.vals[i] * bot.den,
     yden |-> IF bot = NoArr \/ bot.den = h.den THEN h.den ELSE bot.den * h.den]
AddBars(tab, a, x, h, w, bot, label) ==
    [tab EXCEPT ![a].bars = Append(@,
        [x |-> x, h |-> h, w |-> w, bottom |-> bot, label |-> label,
         rects |-> [i \in 1..h.len |-> Rect(x, h, w, bot, i)]])]

\* the data an automatic limit is computed from: every axes of the share group
XData(a) ==
    UNION {{axs[b].curves[i].x : i \in 1..Len(axs[b].curves)}
             \cup {axs[b].bars[i].x : i \in 1..Len(axs[b].bars)}
           : b \in {b \in DOMAIN axs : axs[b].xg = axs[a].xg}}
YData(a) ==
    UNION {{axs[b].curves[i].y : i \in 1..Len(axs[b].curves)}
             \cup {axs[b].bars[i].h : i \in 1..Len(axs[b].bars)}
           : b \in {b \in DOMAIN axs : axs[b].yg = axs[a].yg}}
\* the limits an axes is drawn with: the manual ones, or those of its data
XLim(a) == IF axs[a].xv.auto THEN [view |-> axs[a].xv, data |-> XData(a)]
           ELSE [view |-> axs[a].xv, data |-> {}]
YLim(a) == IF axs[a].yv.auto THEN [view |-> axs[a].yv, data |-> YData(a)]
           ELSE [view |-> axs[a].yv, data |-> {}]

(***************************************************************************)
(* One statement: line, the line that runs next, the global names it       *)
(* reads, the arrays among them, the names it binds, the library's         *)
(* precondition on the arguments, and its effect on the state.             *)
(***************************************************************************)
A(n) == <<n, arrs[n].cell>>

Exec(line, next, rd, ar, wr, Pre, Effect) ==
    /\ pc = line
    /\ failed = ""
    /\ notebook' = notebook
    /\ IF ~(rd \subseteq bound)
       THEN /\ failed' = "NameError"
            /\ UNCHANGED <<pc, bound, done, reads, data, loopv, gfx>>
       ELSE IF ~Pre
       THEN /\ failed' = "ValueError"
            /\ UNCHANGED <<pc, bound, done, reads, data, loopv, gfx>>
       ELSE /\ Effect
            /\ pc' = next
            /\ failed' = ""
            /\ bound' = bound \cup wr
            /\ done' = done \cup {line}
            /\ reads' = reads \cup
                 {[cell |-> CellOf(line), name |-> p[1], by |-> p[2]] : p \in ar}

Skip == UNCHANGED <<data, loopv, gfx>>
Bind(n, v) == /\ arrs' = [arrs EXCEPT ![n] = v]
              /\ UNCHANGED <<funcs, labels, loopv, gfx>>

\* plt.figure(): a new current figure without axes
PltFigure ==
    /\ nfig' = nfig + 1
    /\ figs' = Append(figs, nfig + 1)
    /\ curax' = Append(curax, 0)
    /\ UNCHANGED <<data, loopv, hnd, grid, axs>>

\* plt.subplots(nr, nc, sharex, sharey): a new current figure with its axes
PltSubplots(nr, nc, sharex, sharey) ==
    /\ nfig' = nfig + 1
    /\ figs' = Append(figs, nfig + 1)
    /\ figh' = nfig + 1
    /\ curax' = Append(curax, Len(axs) + nr * nc)
    /\ axs' = axs \o SubplotAxes(nfig + 1, Len(axs), nr, nc, sharex, sharey)
    /\ UNCHANGED <<data, loopv>>

\* plt.close(): closes the current figure
PltClose ==
    /\ figs' = IF figs = <<>> THEN figs ELSE SubSeq(figs, 1, Len(figs) - 1)
    /\ UNCHANGED <<data, loopv, hnd, figh, grid, nfig, curax, axs>>

\* plt.show() under the inline backend: displays and closes every open figure
PltShow ==
    /\ figs' = <<>>
    /\ UNCHANGED <<data, loopv, hnd, figh, grid, nfig, curax, axs>>

\* plt.bar(...): on the current figure's current axes, created when missing
PltBarOk == figs # <<>>
PltBar(x, h, w, bot, label) ==
    LET f == figs[Len(figs)]
        a == IF curax[f] = 0 THEN Len(axs) + 1 ELSE curax[f]
        tab == IF curax[f] = 0
               THEN Append(axs, NewAxes(f, a, a, DefaultView)) ELSE axs
    IN  /\ axs' = AddBars(tab, a, x, h, w, bot, label)
        /\ curax' = [curax EXCEPT ![f] = a]
        /\ UNCHANGED <<data, loopv, hnd, figh, grid, figs, nfig>>

OnAxes(tab) == /\ axs' = tab
               /\ UNCHANGED <<data, loopv, hnd, figh, grid, figs, nfig, curax>>

(***************************************************************************)
(* The cells.                                                              *)
(***************************************************************************)
\* between two cells: a notebook's inline backend shows and closes the
\* figures the cell left open
CellBoundary ==
    /\ pc \in Markers
    /\ failed = ""
    /\ pc' = FirstStatement(pc)
    /\ figs' = IF notebook THEN <<>> ELSE figs
    /\ UNCHANGED <<notebook, failed, bound, done, reads, data, loopv,
                   hnd, figh, grid, nfig, curax, axs>>

In19 ==
    \/ Exec(29, 30, {}, {}, {"plt"}, TRUE, Skip)
    \/ Exec(30, 32, {"get_ipython"}, {}, {}, TRUE, Skip)
    \/ Exec(32, 33, {"plt"}, {}, {"fig"}, TRUE, PltFigure /\ figh' = nfig + 1)
    \/ Exec(33, 34, {"print", "fig", "type"}, {}, {}, TRUE, Skip)
    \/ Exec(34, 41, {"plt"}, {}, {}, TRUE, PltClose)

In20 ==
    \/ Exec(45, 47, {"plt"}, {}, {"fig", "ax"}, TRUE,
            /\ PltSubplots(1, 1, "none", "none")
            /\ hnd' = [hnd EXCEPT !["ax"] = Len(axs) + 1]
            /\ grid' = grid)
    \/ Exec(47, 48, {"print", "fig", "type"}, {}, {}, TRUE, Skip)
    \/ Exec(48, 49, {"print", "ax", "type"}, {}, {}, TRUE, Skip)
    \/ Exec(49, 57, {"plt"}, {}, {}, TRUE, PltShow)

In21 ==
    \/ Exec(60, 63, {}, {}, {"np"}, TRUE, Skip)
    \/ Exec(63, 64, {"np"}, {}, {"x"}, TRUE, Bind("x", Linspace(21, XSamples)))
    \/ Exec(64, 65, {"np", "x"}, {A("x")}, {"sinh"}, TRUE,
            Bind("sinh", Ufunc(21, "sinh", arrs["x"])))
    \/ Exec(65, 69, {"np", "x"}, {A("x")}, {"sin"}, TRUE,
            Bind("sin", Ufunc(21, "sin", arrs["x"])))
    \/ Exec(69, 71, {"plt"}, {}, {"fig", "ax1"}, TRUE,
            /\ PltSubplots(1, 1, "none", "none")
            /\ hnd' = [hnd EXCEPT !["ax1"] = Len(axs) + 1]
            /\ grid' = grid)
    \/ Exec(71, 74, {}, {}, {"color"}, TRUE, Skip)
    \/ Exec(74, 75, {"ax1"}, {}, {}, TRUE, Skip)
    \/ Exec(75, 78, {"ax1", "color"}, {}, {}, TRUE, Skip)
    \/ Exec(78, 81, {"ax1", "x", "sinh", "color"}, {A("x"), A("sinh")}, {},
            PlotOk(arrs["x"], arrs["sinh"]),
            OnAxes(AddCurve(axs, hnd["ax1"], arrs["x"], arrs["sinh"], "")))
    \/ Exec(81, 84, {"ax1", "color"}, {}, {}, TRUE, Skip)
    \/ Exec(84, 86, {"ax1"}, {}, {"ax2"}, TRUE,
            /\ axs' = Append(axs, TwinAxes(axs, hnd["ax1"], TwinShare))
            /\ hnd' = [hnd EXCEPT !["ax2"] = Len(axs) + 1]
            /\ curax' = [curax EXCEPT ![axs[hnd["ax1"]].fig] = Len(axs) + 1]
            /\ UNCHANGED <<data, loopv, figh, grid, figs, nfig>>)
    \/ Exec(86, 87, {}, {}, {"color"}, TRUE, Skip)
    \/ Exec(87, 89, {"ax2", "color"}, {}, {}, TRUE, Skip)
    \/ Exec(89, 90, {"ax2", "x", "sin"}, {A("x"), A("sin")}, {},
            PlotOk(arrs["x"], arrs["sin"]),
            OnAxes(AddCurve(axs, hnd["ax2"], arrs["x"], arrs["sin"], "")))
    \/ Exec(90, 93, {"ax2", "color"}, {}, {}, TRUE, Skip)
    \/ Exec(93, 100, {"ax2"}, {}, {}, TRUE,
            OnAxes(SetYLim(axs, hnd["ax2"], -100, 100)))
    \/ Exec(100, 102, {"fig"}, {}, {}, TRUE, Skip)
    \/ Exec(102, 120, {"plt"}, {}, {}, TRUE, PltShow)

In22 ==
    \/ Exec(123, 124, {"plt"}, {}, {"fig", "axes"}, TRUE,
            /\ PltSubplots(GridRows, GridCols, "none", "none")
            /\ grid' = GridOf(Len(axs), GridRows, GridCols)
            /\ hnd' = hnd)
    \/ Exec(124, 125, {"print", "axes"}, {}, {}, TRUE, Skip)
    \/ Exec(125, 126, {"axes"}, {}, {}, TRUE,
            OnAxes(SetXLim(axs, grid[2][2], -1000, 1000)))
    \/ Exec(126, 132, {"plt"}, {}, {}, TRUE, PltShow)

In23 ==
    \/ Exec(135, 136, {"plt"}, {}, {"fig", "axes"}, TRUE,
            /\ PltSubplots(GridRows, GridCols, "none", "none")
            /\ grid' = GridOf(Len(axs), GridRows, GridCols)
            /\ hnd' = hnd)
    \/ Exec(136, 137, {"print", "axes"}, {}, {}, TRUE, Skip)
    \/ Exec(137, 138, {"axes"}, {}, {"ax_bl"}, TRUE,
            /\ hnd' = [hnd EXCEPT !["ax_bl"] = grid[2][1]]
            /\ UNCHANGED <<data, loopv, figh, grid, figs, nfig, curax, axs>>)
    \/ Exec(138, 139, {"ax_bl"}, {}, {}, TRUE,
            OnAxes(SetXLim(axs, hnd["ax_bl"], -1000, 1000)))
    \/ Exec(139, 140, {"ax_bl"}, {}, {}, TRUE,
            OnAxes(SetYLim(axs, hnd["ax_bl"], -105, 105)))
    \/ Exec(140, 141, {"ax_bl", "x", In23PlotY}, {A("x"), A(In23PlotY)}, {},
            PlotOk(arrs["x"], arrs[In23PlotY]),
            OnAxes(AddCurve(axs, hnd["ax_bl"], arrs["x"], arrs[In23PlotY], "")))
    \/ Exec(141, 144, {"plt"}, {}, {}, TRUE, PltShow)

\* def one_sub(ax, x, y, label): the body runs on the call's local names
OneSub ==
    \/ Exec(153, 154, {}, {}, {}, PlotOk(frame.x, frame.y),
            OnAxes(AddCurve(axs, frame.ax, frame.x, frame.y, frame.label)))
    \/ Exec(154, 155, {}, {}, {}, TRUE,
            OnAxes([axs EXCEPT ![frame.ax].legend = TRUE]))
    \/ Exec(155, ret, {}, {}, {}, TRUE,
            /\ frame' = NoFrame
            /\ ret' = 0
            /\ UNCHANGED <<iy, ix, it, data, gfx>>)

\* one_sub(axes[iy, ix], x, funcs[iy][ix], labels[iy][ix])
CallOneSub(line, back) ==
    Exec(line, 153, {"one_sub", "axes", "iy", "ix", GridX, "funcs", "labels"},
         {A(GridX), <<"funcs", funcs[iy + 1][ix + 1].cell>>}, {}, TRUE,
         /\ frame' = [ax |-> grid[iy + 1][ix + 1], x |-> arrs[GridX],
                      y |-> funcs[iy + 1][ix + 1], label |-> labels[iy + 1][ix + 1]]
         /\ ret' = back
         /\ UNCHANGED <<iy, ix, it, data, gfx>>)

\* for ix in range(3): the next index, or the line after the loop
ForIx(line, body, after) ==
    Exec(line, IF it < 3 THEN body ELSE after, {"range"}, {},
         IF it < 3 THEN {"ix"} ELSE {}, TRUE,
         /\ ix' = IF it < 3 THEN it ELSE ix
         /\ it' = IF it < 3 THEN it + 1 ELSE 0
         /\ UNCHANGED <<iy, frame, ret, data, gfx>>)

SetIy(line, next, v) ==
    Exec(line, next, {}, {}, {"iy"}, TRUE,
         /\ iy' = v
         /\ UNCHANGED <<ix, it, frame, ret, data, gfx>>)

In24 ==
    \/ Exec(147, 150, {}, {}, {"np"}, TRUE, Skip)
    \/ Exec(150, 159, {}, {}, {"one_sub"}, TRUE, Skip)
    \/ Exec(159, 160, {"np"}, {}, {"t"}, TRUE, Bind("t", Linspace(24, TSamples)))
    \/ Exec(160, 161, {"np", "t"}, {A("t")}, {"sin"}, TRUE,
            Bind("sin", Ufunc(24, "sin", arrs["t"])))
    \/ Exec(161, 162, {"np", "t"}, {A("t")}, {"sinh"}, TRUE,
            Bind("sinh", Ufunc(24, "sinh", arrs["t"])))
    \/ Exec(162, 163, {"np", "t"}, {A("t")}, {"cos"}, TRUE,
            Bind("cos", Ufunc(24, "cos", arrs["t"])))
    \/ Exec(163, 164, {"np", "t"}, {A("t")}, {"cosh"}, TRUE,
            Bind("cosh", Ufunc(24, "cosh", arrs["t"])))
    \/ Exec(164, 165, {"np", "t"}, {A("t")}, {"tan"}, TRUE,
            Bind("tan", Ufunc(24, "tan", arrs["t"])))
    \/ Exec(165, 168, {"np", "t"}, {A("t")}, {"tanh"}, TRUE,
            Bind("tanh", Ufunc(24, "tanh", arrs["t"])))
    \/ Exec(168, 170, {FuncNames[r][c] : r \in 1..2, c \in 1..3},
            {A(FuncNames[r][c]) : r \in 1..2, c \in 1..3}, {"funcs"}, TRUE,
            /\ funcs' = [r \in 1..2 |-> [c \in 1..3 |-> arrs[FuncNames[r][c]]]]
            /\ UNCHANGED <<arrs, labels, loopv, gfx>>)
    \/ Exec(170, 177, {}, {}, {"labels"}, TRUE,
            /\ labels' = Labels
            /\ UNCHANGED <<arrs, funcs, loopv, gfx>>)
    \/ Exec(177, 180, {"plt"}, {}, {"fig", "axes"}, TRUE,
            /\ PltSubplots(GridRows, GridCols, GridShareX, GridShareY)
            /\ grid' = GridOf(Len(axs), GridRows, GridCols)
            /\ hnd' = hnd)
    \/ Exec(180, 182, {"axes"}, {}, {}, TRUE,
            OnAxes(SetXLim(axs, grid[2][2], -1000, 1000)))
    \/ Exec(182, 183, {"axes"}, {}, {}, TRUE,
            OnAxes(SetYLim(axs, grid[1][2], -1000000, 1000000)))
    \/ Exec(183, 188, {"axes"}, {}, {}, TRUE,
            OnAxes(SetYLim(axs, grid[2][2], -200, 200)))
    \/ Exec(188, 190, {"axes", "np"}, {}, {}, TRUE, Skip)
    \/ Exec(190, 193, {"axes", "np"}, {}, {}, TRUE, Skip)
    \/ SetIy(193, 194, TopRow)
    \/ ForIx(194, 195, 198)
    \/ CallOneSub(195, 194)
    \/ SetIy(198, 199, BottomRow)
    \/ ForIx(199, 200, 203)
    \/ CallOneSub(200, 199)
    \/ Exec(203, 204, {"fig"}, {}, {}, TRUE, Skip)
    \/ Exec(204, 205, {"axes"}, {}, {}, TRUE, Skip)
    \/ Exec(205, 206, {"axes"}, {}, {}, TRUE, Skip)
    \/ Exec(206, 207, {"axes"}, {}, {}, TRUE, Skip)
    \/ Exec(207, 208, {"axes"}, {}, {}, TRUE, Skip)
    \/ Exec(208, 226, {"axes"}, {}, {}, TRUE, Skip)

In25 ==
    \/ Exec(229, 230, {}, {}, {"plt"}, TRUE, Skip)
    \/ Exec(230, 234, {}, {}, {"np"}, TRUE, Skip)
    \/ Exec(234, 235, {"np"}, {}, {"years"}, TRUE, Bind("years", Literal(25, Years)))
    \/ Exec(235, 236, {"np"}, {}, {"inner_pop"}, TRUE,
            Bind("inner_pop", Literal(25, InnerPop)))
    \/ Exec(236, 237, {"np"}, {}, {"outer_pop"}, TRUE,
            Bind("outer_pop", Literal(25, OuterPop)))
    \/ Exec(237, 240, {"np"}, {}, {"greater_pop"}, TRUE,
            Bind("greater_pop", Literal(25, GreaterPop)))
    \/ Exec(240, 241, {"inner_pop"}, {A("inner_pop")}, {"inner_pop"}, TRUE,
            Bind("inner_pop", DivScalar(25, arrs["inner_pop"], Million)))
    \/ Exec(241, 244, {"outer_pop"}, {A("outer_pop")}, {"outer_pop"}, TRUE,
            Bind("outer_pop", DivScalar(25, arrs["outer_pop"], Million)))

\* plt.title / xlabel / ylabel: styling of the current axes
PltStyle(line, next) == Exec(line, next, {"plt"}, {}, {}, TRUE, Skip)

\* plt.legend(): the legend of the current axes
PltLegend(line, next) ==
    Exec(line, next, {"plt"}, {}, {}, PltBarOk,
         LET f == figs[Len(figs)]
         IN  IF curax[f] = 0 THEN Skip
             ELSE OnAxes([axs EXCEPT ![curax[f]].legend = TRUE]))

In26 ==
    \/ Exec(247, 248, {"plt"}, {}, {}, TRUE, PltFigure /\ figh' = figh)
    \/ Exec(248, 251, {"years"}, {A("years")}, {"iyears"}, TRUE,
            Bind("iyears", AddScalar(26, arrs["years"], -BarOffset)))
    \/ Exec(251, 252, {"plt", "iyears", "inner_pop"}, {A("iyears"), A("inner_pop")},
            {}, PltBarOk /\ BarOk(arrs["iyears"], arrs["inner_pop"], NoArr),
            PltBar(arrs["iyears"], arrs["inner_pop"], GroupedWidth, NoArr, "inner"))
    \/ Exec(252, 253, {"years"}, {A("years")}, {"oyears"}, TRUE,
            Bind("oyears", AddScalar(26, arrs["years"], BarOffset)))
    \/ Exec(253, 256, {"plt", "oyears", "outer_pop"}, {A("oyears"), A("outer_pop")},
            {}, PltBarOk /\ BarOk(arrs["oyears"], arrs["outer_pop"], NoArr),
            PltBar(arrs["oyears"], arrs["outer_pop"], GroupedWidth, NoArr, "outer"))
    \/ PltStyle(256, 257)
    \/ PltStyle(257, 258)
    \/ PltStyle(258, 259)
    \/ PltLegend(259, 260)
    \/ Exec(260, 267, {"plt"}, {}, {}, TRUE, PltShow)

In27 ==
    \/ Exec(271, 272, {"plt"}, {}, {}, TRUE, PltFigure /\ figh' = figh)
    \/ Exec(272, 275, {"plt", "years", "inner_pop"}, {A("years"), A("inner_pop")},
            {}, PltBarOk /\ BarOk(arrs["years"], arrs["inner_pop"], NoArr),
            PltBar(arrs["years"], arrs["inner_pop"], StackedWidth, NoArr, "inner"))
    \/ Exec(275, 278, {"plt", "years", "outer_pop", StackBottom},
            {A("years"), A("outer_pop"), A(StackBottom)}, {},
            PltBarOk /\ BarOk(arrs["years"], arrs["outer_pop"], arrs[StackBottom]),
            PltBar(arrs["years"], arrs["outer_pop"], StackedWidth,
                   arrs[StackBottom], "outer"))
    \/ PltStyle(278, 279)
    \/ PltStyle(279, 280)
    \/ PltStyle(280, 281)
    \/ PltLegend(281, 282)
    \/ Exec(282, 285, {"plt"}, {}, {}, TRUE, PltShow)

Init ==
    /\ pc = 26
    /\ notebook \in BOOLEAN
    /\ failed = ""
    /\ bound = Builtins
    /\ done = {}
    /\ arrs = [n \in ArrNames |-> NoArr]
    /\ funcs = <<>>
    /\ labels = <<>>
    /\ iy = 0
    /\ ix = 0
    /\ it = 0
    /\ frame = NoFrame
    /\ ret = 0
    /\ hnd = [n \in HandleNames |-> 0]
    /\ figh = 0
    /\ grid = <<>>
    /\ figs = <<>>
    /\ nfig = 0
    /\ curax = <<>>
    /\ axs = <<>>
    /\ reads = {}

Next ==
    \/ CellBoundary
    \/ In19
    \/ In20
    \/ In21
    \/ In22
    \/ In23
    \/ OneSub
    \/ In24
    \/ In25
    \/ In26
    \/ In27

Spec == Init /\ [][Next]_vars

(***************************************************************************)
(* Properties.                                                             *)
(***************************************************************************)
Panels == {<<r, c>> : r \in 1..GridRows, c \in 1..GridCols}
AllRects(a) ==
    {<<b, i>> : b \in 1..Len(axs[a].bars), i \in 1..Len(Years)}
RectAt(a, p) == axs[a].bars[p[1]].rects[p[2]]
GroupedAxes ==
    {a \in DOMAIN axs : Len(axs[a].bars) = 2 /\ axs[a].bars[1].w = GroupedWidth}
StackedAxes ==
    {a \in DOMAIN axs : Len(axs[a].bars) = 2 /\ axs[a].bars[1].w = StackedWidth}

\* C1: in the grouped bar chart the inner bars are centred on year - 5 and the
\* outer bars on year + 5, all 7 wide; at every year the inner bar ends left of
\* where the outer bar starts, and no two of the ten bars overlap horizontally.
C1_GroupedBarsDisjoint ==
    \A a \in GroupedAxes :
        /\ \A i \in 1..Len(Years) :
            LET inner == axs[a].bars[1].rects[i]
                outer == axs[a].bars[2].rects[i]
            IN  /\ inner.xden = 2 /\ outer.xden = 2
                /\ inner.x2lo = 2 * (Years[i] - 5) - 7
                /\ inner.x2hi = 2 * (Years[i] - 5) + 7
                /\ outer.x2lo = 2 * (Years[i] + 5) - 7
                /\ outer.x2hi = 2 * (Years[i] + 5) + 7
                /\ inner.x2hi < outer.x2lo
        /\ \A p, q \in AllRects(a) :
            p # q => \/ RectAt(a, p).x2hi <= RectAt(a, q).x2lo
                     \/ RectAt(a, q).x2hi <= RectAt(a, p).x2lo
C1_Witness == 253 \in done /\ GroupedAxes # {}

\* C2: in the stacked bar chart the inner bar of a year starts at 0 and the
\* outer bar of that year starts where the inner bar ends, over the same
\* horizontal extent, so the stack's top is inner_pop + outer_pop (in millions).
C2_StackedBaseline ==
    \A a \in StackedAxes : \A i \in 1..Len(Years) :
        LET inner == axs[a].bars[1].rects[i]
            outer == axs[a].bars[2].rects[i]
        IN  /\ inner.yden = Million /\ outer.yden = Million
            /\ inner.y0 = 0
            /\ inner.y1 = InnerPop[i]
            /\ outer.y0 = inner.y1
            /\ outer.y1 = InnerPop[i] + OuterPop[i]
            /\ inner.x2lo = outer.x2lo /\ inner.x2hi = outer.x2hi
C2_Witness == 275 \in done /\ StackedAxes # {}

\* C3: in the grid made with sharex="all", sharey="row", line 180 sets the
\* x-limits of all six panels, line 182 the y-limits of the top row only and
\* line 183 those of the bottom row only; from then on every panel has
\* x-limits (-10, 10), the top row y-limits (-10000, 10000) and the bottom
\* row y-limits (-2, 2).
C3_SharedLimits ==
    /\ (180 \in done) =>
          \A p \in Panels : axs[grid[p[1]][p[2]]].xv = View(FALSE, -1000, 1000)
    /\ (180 \in done /\ 182 \notin done) =>
          \A p \in Panels : axs[grid[p[1]][p[2]]].yv = DefaultView
    /\ (182 \in done) =>
          \A c \in 1..GridCols : axs[grid[1][c]].yv = View(FALSE, -1000000, 1000000)
    /\ (182 \in done /\ 183 \notin done) =>
          \A c \in 1..GridCols : axs[grid[2][c]].yv = DefaultView
    /\ (183 \in done) =>
          \A c \in 1..GridCols : axs[grid[2][c]].yv = View(FALSE, -200, 200)
C3_Witness == 183 \in done /\ pc = 188

\* C4: each panel of the grid gets at most one curve, the one of funcs[iy][ix]
\* labelled labels[iy][ix] with its legend; once both loops are over every
\* panel holds exactly that one curve (sinh, cosh, tanh above sin, cos, tan);
\* and a step of one_sub changes no axes but the one it was given.
InLoops == pc \in {194, 195, 199, 200, 153, 154, 155}
C4_PanelState ==
    (177 \in done) =>
        \A p \in Panels :
            LET panel == axs[grid[p[1]][p[2]]]
            IN  /\ Len(panel.curves) <= 1
                /\ panel.bars = <<>>
                /\ (198 \in done /\ ~InLoops) => Len(panel.curves) = 1
                /\ Len(panel.curves) = 1 =>
                      /\ panel.curves[1].y = funcs[p[1]][p[2]]
                      /\ panel.curves[1].y.kind = FuncNames[p[1]][p[2]]
                      /\ panel.curves[1].label = Labels[p[1]][p[2]]
C4_OneSubLocal ==
    (pc \in {153, 154, 155}) =>
        \A b \in DOMAIN axs : b # frame.ax => axs'[b] = axs[b]
C5_TwinAxes ==
    /\ (84 \in done) =>
          /\ axs[hnd["ax1"]].xg = axs[hnd["ax2"]].xg
          /\ axs[hnd["ax1"]].yg # axs[hnd["ax2"]].yg
          /\ XLim(hnd["ax1"]) = XLim(hnd["ax2"])
    /\ (84 \in done /\ 93 \notin done) => axs[hnd["ax2"]].yv = DefaultView
    /\ (93 \in done) =>
          /\ axs[hnd["ax2"]].yv = View(FALSE, -100, 100)
          /\ axs[hnd["ax1"]].yv = DefaultView
          /\ YLim(hnd["ax1"]).data = {Ufunc(21, "sinh", Linspace(21, XSamples))}
C5_Witness == pc = 100 /\ 93 \in done /\ XLim(hnd["ax2"]).data # {}

\* C6 (as stated): each of the four examples reads only arrays created by
\* its own cell.
Examples == {21, 24, 26, 27}
CrossReads == {r \in reads : r.cell \in Examples /\ r.by # r.cell}
C6_Original == CrossReads = {}
\* C6 (amended): the dual-axis example reads only its own arrays; the grid
\* example also reads x of the dual-axis cell In[21]; the two bar charts read
\* years, inner_pop and outer_pop of the data cell In[25]; an example reads
\* no other array of another cell.
SharedReads ==
    {[cell |-> 24, name |-> "x", by |-> 21]}
      \cup {[cell |-> c, name |-> n, by |-> 25] :
              c \in {26, 27}, n \in {"years", "inner_pop", "outer_pop"}}
C6_ScopedReads ==
    /\ CrossReads \subseteq SharedReads
    /\ pc = EndOfFile => CrossReads = SharedReads
C6_Witness ==
    /\ pc = EndOfFile
    /\ \E r \in reads : r.cell = 21 /\ r.by = 21
    /\ \E r \in reads : r.cell = 24 /\ r.by = 24

\* C7: every figure is released before the next one is created: at most one
\* figure is open at any time, none at the end, and between two figure
\* creations there is a plt.show or plt.close.
Creations == {32, 45, 69, 123, 135, 177, 247, 271}
Releases == {34, 49, 102, 126, 141, 260, 282}
C7_FigureReleased ==
    /\ Len(figs) <= 1
    /\ pc = EndOfFile => figs = <<>>
    /\ \A c1, c2 \in Creations \cap done :
          c1 < c2 => \E l \in Releases \cap done : c1 < l /\ l < c2

\* C8: before the conversion to millions, greater_pop[i] equals
\* inner_pop[i] + outer_pop[i] for each of the five years.
C8_GreaterIsSum ==
    (237 \in done /\ 240 \notin done) =>
        /\ arrs["greater_pop"].len = 5
        /\ \A n \in {"inner_pop", "outer_pop", "greater_pop"} : arrs[n].den = 1
        /\ \A i \in 1..5 :
              arrs["greater_pop"].vals[i]
                 = arrs["inner_pop"].vals[i] + arrs["outer_pop"].vals[i]
C8_Witness == pc = 240 /\ arrs["greater_pop"].vals[4] = 8164416

\* C9: no plot or bar call is given data of different lengths: x and y of
\* every curve, and x, height and bottom of every bar series, have the same
\* number of elements, also in the grid, whose curves pair x of cell In[21]
\* with function samples of cell In[24].
C9_EqualLengths ==
    /\ failed # "ValueError"
    /\ \A a \in DOMAIN axs :
          /\ \A i \in 1..Len(axs[a].curves) :
                axs[a].curves[i].x.len = axs[a].curves[i].y.len
          /\ \A i \in 1..Len(axs[a].bars) :
                /\ axs[a].bars[i].x.len = axs[a].bars[i].h.len
                /\ axs[a].bars[i].bottom # NoArr =>
                      axs[a].bars[i].bottom.len = axs[a].bars[i].h.len
    /\ (177 \in done) =>
          \A p \in Panels : \A i \in 1..Len(axs[grid[p[1]][p[2]]].curves) :
              /\ axs[grid[p[1]][p[2]]].curves[i].x = Linspace(21, XSamples)
              /\ axs[grid[p[1]][p[2]]].curves[i].y.cell = 24
    /\ (pc \in {153, 154, 155}) => frame.x.len = frame.y.len
C9_Witness ==
    /\ pc = EndOfFile
    /\ Len(axs[grid[2][3]].curves) = 1
    /\ \E a \in StackedAxes : axs[a].bars[2].bottom.len = 5

\* C10: run once in file order, no statement reads a name that is not bound
\* yet, and the run goes on until the end of the file.
C10_NamesBound ==
    /\ failed # "NameError"
    /\ (failed = "" /\ pc # EndOfFile) => ENABLED Next
C10_Witness ==
    /\ pc = EndOfFile
    /\ failed = ""
    /\ {"plt", "np", "x", "sin", "one_sub", "funcs", "labels", "years",
        "inner_pop", "outer_pop"} \subseteq bound
    /\ {140, 195, 200, 251, 253} \subseteq done
====
